---- MODULE Spec2Model ----
(***************************************************************************)
(* Webhook verification and event correlation of the Chainrails demo       *)
(* (api/src/app/app.service.ts with its controller app.controller.ts).     *)
(*                                                                         *)
(* Modelling conventions                                                   *)
(*  - JavaScript `undefined` for a string-typed value is the string        *)
(*    "<undefined>"; numbers are tagged records so that NaN is a value.    *)
(*  - HMAC-SHA256 is an ideal keyed hash: the digest is the pair           *)
(*    (key, message), so two digests are equal exactly when key and        *)
(*    message are equal (no collisions).                                   *)
(*  - A request body is a JSON text: the value it denotes together with    *)
(*    its textual form.  JSON.parse forgets the form, JSON.stringify       *)
(*    always produces the compact form.                                    *)
(*  - Node runs every synchronous stretch of a handler to completion, so   *)
(*    one action is one such stretch; an `await` splits a handler in two.  *)
(***************************************************************************)
EXTENDS Integers, Sequences, FiniteSets, TLC

\* ---------------------------------------------------------------- bounds
StartTime == 1000
TickStep == 301
MaxTicks == 1
MaxDeliveries == 2
MaxCreating == 1
MaxQuotes == 2
MaxRequests == 2

\* ------------------------------------------------------ program constants
MAX_TIMESTAMP_AGE == 300

\* ------------------------------------------------------------ JS values
undefined == "<undefined>"
NaN == [kind |-> "NaN"]
Num(n) == [kind |-> "number", val |-> n]
Abs(x) == IF x < 0 THEN -x ELSE x

\* `!webhookSecret`: undefined and the empty string are falsy
Falsy(s) == s = undefined \/ s = ""

\* ------------------------------------------------------------ the world
VendorSecret == "whsec_live"
OtherSecret == "whsec_other"
Secrets == {undefined, "", VendorSecret}

AddrA == "0xA"
AddrB == "0xB"
Addresses == {AddrA, AddrB}

MkPayload(id, type, createdAt, data) ==
  [id |-> id, type |-> type, created_at |-> createdAt, data |-> data]

Payloads ==
  { MkPayload("evt_1", "intent.funded", "t1", [intent_address |-> AddrA]),
    MkPayload("evt_2", "intent.completed", "t2", [intent_address |-> AddrA]),
    MkPayload("evt_3", "intent.funded", "t3", [intent_address |-> AddrB]),
    MkPayload("evt_4", "intent.refunded", "t4", [reason |-> "none"]) }

BasePayload == MkPayload("evt_1", "intent.funded", "t1", [intent_address |-> AddrA])

\* JSON texts
JSONstringify(payload) == [value |-> payload, form |-> "compact"]
JSONparse(body) == body.value
SpacedBody(payload) == [value |-> payload, form |-> "spaced"]

\* X-Chainrails-Timestamp header values
HdrMissing == [kind |-> "undefined"]
HdrText == [kind |-> "text"]
HdrDigits(n) == [kind |-> "digits", val |-> n]

\* parseInt(timestamp, 10)
parseInt(h) == IF h.kind = "digits" THEN Num(h.val) ELSE NaN

\* variant: the signing string leaves the timestamp out
MessageWithoutTimestamp(timestamp, body) == [timestamp |-> Num(0), body |-> body]

\* `${timestamp}.${body}`
Message(timestamp, body) == [timestamp |-> timestamp, body |-> body]

\* `sha256=${createHmac('sha256', key).update(message).digest('hex')}`
createHmac(key, message) == [kind |-> "hmac", key |-> key, message |-> message]

\* X-Chainrails-Signature header values
SigMissing == [kind |-> "undefined"]
SigText == [kind |-> "text"]


\* ------------------------------------------------ Map<string, any[]>
MapHas(map, key) == key \in DOMAIN map
MapGetOrEmpty(map, key) == IF key \in DOMAIN map THEN map[key] ELSE << >>
\* variant: setting a key drops the other keys whose log is empty
MapSetDroppingEmpty(map, key, value) ==
  [k \in {j \in DOMAIN map : map[j] # << >>} \cup {key} |->
     IF k = key THEN value ELSE map[k]]

MapSet(map, key, value) ==
  [k \in DOMAIN map \cup {key} |-> IF k = key THEN value ELSE map[k]]

\* ------------------------------------------------ AppService (api)
\* variant: the window excludes its boundary (>= instead of >)
TooOldAtBoundary(nowv, timestamp) ==
  /\ timestamp.kind = "number"
  /\ Abs(nowv - timestamp.val) >= MAX_TIMESTAMP_AGE

\* Math.abs(now - timestamp) > 300; every comparison with NaN is false
TooOld(nowv, timestamp) ==
  /\ timestamp.kind = "number"
  /\ Abs(nowv - timestamp.val) > MAX_TIMESTAMP_AGE

\* variant: only an absent secret skips verification, an empty one does not
SkipsVerificationWhenAbsent(secret) == secret = undefined

\* the warning branch of verifyWebhookSignature
SkipsVerification(secret) == Falsy(secret)

\* variant: the HMAC is computed over the timestamp only, not over the body
verifyWebhookSignatureTimestampOnly(secret, nowv, payload, signature, timestamp) ==
  IF SkipsVerification(secret) THEN TRUE
  ELSE IF TooOld(nowv, timestamp) THEN FALSE
  ELSE /\ signature.kind = "hmac"
       /\ signature.key = secret
       /\ signature.message.timestamp = timestamp

verifyWebhookSignature(secret, nowv, payload, signature, timestamp) ==
  IF SkipsVerification(secret) THEN TRUE
  ELSE IF TooOld(nowv, timestamp) THEN FALSE
  ELSE createHmac(secret, Message(timestamp, JSONstringify(payload))) = signature

\* payload.data?.intent_address
IntentAddressOf(payload) ==
  IF "intent_address" \in DOMAIN payload.data
  THEN payload.data.intent_address ELSE undefined

\* variant: `data: payload` instead of `data: payload.data`
WebhookEventWithPayloadAsData(payload, nowv) ==
  [id |-> payload.id, type |-> payload.type, created_at |-> payload.created_at,
   data |-> payload, receivedAt |-> nowv]

WebhookEvent(payload, nowv) ==
  [id |-> payload.id, type |-> payload.type, created_at |-> payload.created_at,
   data |-> payload.data, receivedAt |-> nowv]

\* variant: events.unshift(...) instead of events.push(...)
RecordEventFirst(map, payload, nowv) ==
  LET intentAddress == IntentAddressOf(payload) IN
  IF ~Falsy(intentAddress)
  THEN MapSet(map, intentAddress,
              << WebhookEvent(payload, nowv) >> \o MapGetOrEmpty(map, intentAddress))
  ELSE map

\* variant: the entry is set to a new array holding the event alone
RecordEventAlone(map, payload, nowv) ==
  LET intentAddress == IntentAddressOf(payload) IN
  IF ~Falsy(intentAddress)
  THEN MapSet(map, intentAddress, << WebhookEvent(payload, nowv) >>)
  ELSE map

\* variant: no `if (intentAddress)` test before the entry is written
RecordEventUnchecked(map, payload, nowv) ==
  LET intentAddress == IntentAddressOf(payload) IN
  MapSet(map, intentAddress,
         Append(MapGetOrEmpty(map, intentAddress), WebhookEvent(payload, nowv)))

\* variant: an event whose id is already in the log is not stored again
RecordEventOncePerId(map, payload, nowv) ==
  LET intentAddress == IntentAddressOf(payload)
      events == MapGetOrEmpty(map, intentAddress)
  IN
  IF ~Falsy(intentAddress)
  THEN IF \E i \in 1..Len(events) : events[i].id = payload.id
       THEN map
       ELSE MapSet(map, intentAddress, Append(events, WebhookEvent(payload, nowv)))
  ELSE map

\* variant: the log is keyed by the event's id instead of its intent_address
RecordEventByEventId(map, payload, nowv) ==
  LET intentAddress == IntentAddressOf(payload) IN
  IF ~Falsy(intentAddress)
  THEN MapSet(map, payload.id,
              Append(MapGetOrEmpty(map, payload.id), WebhookEvent(payload, nowv)))
  ELSE map

\* events.push(...); this.webhookEvents.set(intentAddress, events)
RecordEvent(map, payload, nowv) ==
  LET intentAddress == IntentAddressOf(payload) IN
  IF ~Falsy(intentAddress)
  THEN MapSet(map, intentAddress,
              Append(MapGetOrEmpty(map, intentAddress), WebhookEvent(payload, nowv)))
  ELSE map

\* variant: the event is stored before the signature is checked
handleWebhookEventStoresFirst(map, secret, nowv, payload, signature, timestamp) ==
  IF ~verifyWebhookSignature(secret, nowv, payload, signature, timestamp)
  THEN [threw |-> "UnauthorizedException", events |-> RecordEvent(map, payload, nowv),
        warned |-> SkipsVerification(secret),
        result |-> [received |-> FALSE, eventId |-> undefined,
                    eventType |-> undefined, intentAddress |-> undefined]]
  ELSE [threw |-> "none", events |-> RecordEvent(map, payload, nowv),
        warned |-> SkipsVerification(secret),
        result |-> [received |-> TRUE, eventId |-> payload.id,
                    eventType |-> payload.type,
                    intentAddress |-> IntentAddressOf(payload)]]

handleWebhookEvent(map, secret, nowv, payload, signature, timestamp) ==
  IF ~verifyWebhookSignature(secret, nowv, payload, signature, timestamp)
  THEN [threw |-> "UnauthorizedException", events |-> map,
        warned |-> SkipsVerification(secret),
        result |-> [received |-> FALSE, eventId |-> undefined,
                    eventType |-> undefined, intentAddress |-> undefined]]
  ELSE [threw |-> "none", events |-> RecordEvent(map, payload, nowv),
        warned |-> SkipsVerification(secret),
        result |-> [received |-> TRUE, eventId |-> payload.id,
                    eventType |-> payload.type,
                    intentAddress |-> IntentAddressOf(payload)]]

\* ------------------------------------------------ AppController
\* POST /app/webhook: body parsed by the framework, headers as sent
handleWebhook(map, secret, nowv, d) ==
  LET timestampNumber == parseInt(d.timestamp)
      r == handleWebhookEvent(map, secret, nowv, JSONparse(d.body),
                              d.signature, timestampNumber)
  IN [threw |-> r.threw, events |-> r.events, warned |-> r.warned,
      timestampNumber |-> timestampNumber, result |-> r.result,
      response |-> IF r.threw = "none"
                   THEN [status |-> 201, received |-> TRUE,
                         eventId |-> r.result.eventId,
                         eventType |-> r.result.eventType]
                   ELSE [status |-> 401, received |-> FALSE,
                         eventId |-> undefined, eventType |-> undefined]]

\* ------------------------------------------------ senders
Offsets ==
  {0 - (MAX_TIMESTAMP_AGE + 1), 0 - MAX_TIMESTAMP_AGE, 0 - (MAX_TIMESTAMP_AGE - 1), 0,
   MAX_TIMESTAMP_AGE - 1, MAX_TIMESTAMP_AGE, MAX_TIMESTAMP_AGE + 1}

MkDelivery(body, signature, timestamp) ==
  [body |-> body, signature |-> signature, timestamp |-> timestamp]

\* what the vendor sends: signs `${t}.${body}` with the shared secret
Signed(key, body, t) ==
  MkDelivery(body, createHmac(key, Message(Num(t), body)), HdrDigits(t))

\* deliveries a sender can produce at time nowv
FreshDeliveries(nowv) ==
  LET base == JSONstringify(BasePayload)
      other == MkPayload("evt_3", "intent.funded", "t3", [intent_address |-> AddrB])
  IN
     {Signed(VendorSecret, JSONstringify(p), nowv) : p \in Payloads}
  \cup {Signed(VendorSecret, base, nowv + o) : o \in Offsets}
  \cup {MkDelivery(base, SigText, HdrDigits(nowv + o)) :
          o \in {0, 0 - (MAX_TIMESTAMP_AGE + 1)}}
  \cup {MkDelivery(base, SigMissing, HdrDigits(nowv)),
        Signed(OtherSecret, base, nowv)}
  \cup {[Signed(VendorSecret, JSONstringify(other), nowv) EXCEPT !.body = base]}
  \cup {MkDelivery(base, createHmac(VendorSecret, Message(NaN, base)), h) :
          h \in {HdrMissing, HdrText}}
  \cup {MkDelivery(base, SigText, HdrMissing)}
  \cup {Signed(VendorSecret, SpacedBody(BasePayload), nowv),
        [Signed(VendorSecret, base, nowv) EXCEPT !.body = SpacedBody(BasePayload)]}

\* a recorded delivery sent again, as it was or with a fresh timestamp header
Replays(seen, nowv) ==
  seen \cup {[d EXCEPT !.timestamp = HdrDigits(nowv)] : d \in seen}

Deliveries(seen, nowv) == FreshDeliveries(nowv) \cup Replays(seen, nowv)

\* ------------------------------------------------ vendor API answers
AddrC == "0xC"
KnownStatuses == {"PENDING", "FUNDED", "INITIATED", "COMPLETED", "EXPIRED", "REFUNDED"}
IntentStatuses == KnownStatuses \cup {"SETTLING", "constructor"}

MkIntent(address, status) == [intent_address |-> address, intent_status |-> status]

\* answers of GET /intents/:id
IntentAnswers ==
  {MkIntent(AddrA, "PENDING"), MkIntent(AddrA, "FUNDED"), MkIntent(AddrA, "COMPLETED"),
   MkIntent(AddrB, "INITIATED"), MkIntent(AddrB, "EXPIRED"),
   MkIntent(AddrC, "REFUNDED"), MkIntent(AddrC, "SETTLING"),
   MkIntent(AddrB, "constructor")}

\* the `stages` table of getTransferStatus
stages ==
  [st \in KnownStatuses |->
     CASE st = "PENDING" -> "Waiting for funding"
       [] st = "FUNDED" -> "Funded, processing starting..."
       [] st = "INITIATED" -> "Transfer in progress"
       [] st = "COMPLETED" -> "Transfer completed!"
       [] st = "EXPIRED" -> "Intent expired"
       [] st = "REFUNDED" -> "Transfer refunded"]

\* what the object literal `stages` inherits from Object.prototype (two of its
\* members), as property name and value
ObjectPrototype ==
  [constructor |-> "[Function: Object]", toString |-> "[Function: toString]"]

\* stages[key]: an own property, else an inherited one, else undefined
stagesLookup(key) ==
  IF key \in DOMAIN stages THEN stages[key]
  ELSE IF key \in DOMAIN ObjectPrototype THEN ObjectPrototype[key]
  ELSE undefined

\* variant: an address without a log yields a log holding one empty slot
getTransferStatusWithPlaceholder(map, intent) ==
  [intent |-> intent,
   webhookEvents |-> IF MapHas(map, intent.intent_address)
                     THEN map[intent.intent_address] ELSE <<[id |-> undefined]>>,
   statusMessage |-> IF ~Falsy(stagesLookup(intent.intent_status))
                     THEN stagesLookup(intent.intent_status) ELSE intent.intent_status,
   isComplete |-> intent.intent_status = "COMPLETED",
   isFailed |-> intent.intent_status \in {"EXPIRED", "REFUNDED"}]

\* getTransferStatus after `await this.intentsService.getIntentStatus(intentId)`
getTransferStatus(map, intent) ==
  [intent |-> intent,
   webhookEvents |-> MapGetOrEmpty(map, intent.intent_address),
   statusMessage |-> IF ~Falsy(stagesLookup(intent.intent_status))
                     THEN stagesLookup(intent.intent_status) ELSE intent.intent_status,
   isComplete |-> intent.intent_status = "COMPLETED",
   isFailed |-> intent.intent_status \in {"EXPIRED", "REFUNDED"}]

\* ------------------------------------------------ state
VARIABLES
  webhookSecret,   \* CHAINRAILS_WEBHOOK_SECRET of the configuration
  now,             \* Math.floor(Date.now() / 1000)
  webhookEvents,   \* AppService.webhookEvents
  creating,        \* createTransfer calls awaiting intentsService.createIntent
  captured,        \* the verified delivery an observer last chose to keep (at most one)
  arrivals,        \* per address, the events of the accepted deliveries in arrival order (history)
  last,            \* the last step: operation, inputs, outcome, map before it
  monitor,         \* ChainrailsCLI.monitorTransferStatus: position and locals
  services         \* CHAINRAILS_API_KEY, the API services constructed, the requests they sent

vars == <<webhookSecret, now, webhookEvents, creating, captured, arrivals, last, monitor, services>>

\* monitorTransferStatus not called yet; checks, errors and finalAt are history:
\* status checks made, checks that threw, number of the first check that
\* reported complete or failed (0: none yet)
MonitorIdle ==
  [pc |-> "idle", isComplete |-> FALSE, attempts |-> 0, timedOut |-> FALSE,
   checks |-> 0, errors |-> 0, finalAt |-> 0]

\* before the configuration is read: no service constructed, no request sent
ServicesDown ==
  [env |-> [loaded |-> FALSE, key |-> undefined],
   apiKey |-> [n \in {} |-> undefined], threw |-> {}, requests |-> {}]

EmptyMap == [k \in {} |-> << >>]

Init ==
  /\ webhookSecret \in Secrets
  /\ now = StartTime
  /\ webhookEvents = EmptyMap
  /\ creating = 0
  /\ captured = {}
  /\ arrivals = [a \in Addresses |-> << >>]
  /\ last = [op |-> "init", before |-> EmptyMap]
  /\ monitor = MonitorIdle
  /\ services = ServicesDown

\* the clock advances
Tick ==
  /\ now + TickStep <= StartTime + MaxTicks * TickStep
  /\ now' = now + TickStep
  /\ last' = [op |-> "tick", before |-> webhookEvents]
  /\ UNCHANGED <<services, monitor, webhookSecret, webhookEvents, creating, captured, arrivals>>

\* the address a delivery is about, if any
Arrival(d) ==
  IF "intent_address" \in DOMAIN d.body.value.data
        /\ d.body.value.data.intent_address \in Addresses
  THEN d.body.value.data.intent_address ELSE undefined

\* number of accepted deliveries that carried an address
Recorded == Len(arrivals[AddrA]) + Len(arrivals[AddrB])

\* POST /app/webhook; `keep` is the observer's choice to keep the delivery
HandleWebhook(d, keep) ==
  LET r == handleWebhook(webhookEvents, webhookSecret, now, d) IN
  /\ Recorded < MaxDeliveries
  /\ webhookEvents' = r.events
  /\ captured' = IF keep /\ r.threw = "none" /\ ~r.warned THEN {d} ELSE captured
  /\ arrivals' = IF r.threw = "none" /\ Arrival(d) # undefined
                  THEN [arrivals EXCEPT ![Arrival(d)] =
                          @ \o << [id |-> d.body.value.id, at |-> now] >>]
                  ELSE arrivals
  /\ last' = [op |-> "handleWebhook", before |-> webhookEvents, delivery |-> d,
              at |-> now, threw |-> r.threw, warned |-> r.warned,
              timestampNumber |-> r.timestampNumber, result |-> r.result,
              response |-> r.response]
  /\ UNCHANGED <<services, monitor, webhookSecret, now, creating>>

\* createTransfer up to `await this.intentsService.createIntent(...)`
CreateTransferCall ==
  /\ creating < MaxCreating
  /\ creating' = creating + 1
  /\ last' = [op |-> "createTransfer.call", before |-> webhookEvents]
  /\ UNCHANGED <<services, monitor, webhookSecret, now, webhookEvents, captured, arrivals>>

\* createTransfer after the vendor answered with an intent
CreateTransferResume(intentAddress) ==
  /\ creating > 0
  /\ creating' = creating - 1
  /\ webhookEvents' = MapSet(webhookEvents, intentAddress, << >>)
  /\ last' = [op |-> "createTransfer", before |-> webhookEvents,
              answered |-> TRUE, intentAddress |-> intentAddress, threw |-> "none"]
  /\ UNCHANGED <<services, monitor, webhookSecret, now, captured, arrivals>>

\* variant: the failure is swallowed and storage is initialised for the
\* address of the intent that is not there
CreateTransferFailInitialising ==
  /\ creating > 0
  /\ creating' = creating - 1
  /\ webhookEvents' = MapSet(webhookEvents, undefined, << >>)
  /\ last' = [op |-> "createTransfer", before |-> webhookEvents,
              answered |-> FALSE, intentAddress |-> undefined, threw |-> "none"]
  /\ UNCHANGED <<services, monitor, webhookSecret, now, captured, arrivals>>

\* createIntent threw (non-OK response or network error): the error propagates
CreateTransferFail ==
  /\ creating > 0
  /\ creating' = creating - 1
  /\ last' = [op |-> "createTransfer", before |-> webhookEvents,
              answered |-> FALSE, intentAddress |-> undefined, threw |-> "Error"]
  /\ UNCHANGED <<services, monitor, webhookSecret, now, webhookEvents, captured, arrivals>>

\* variant: the lookup creates the log it does not find (get-or-create)
GetTransferStatusResumeCreatingLog(intent) ==
  /\ webhookEvents' = IF MapHas(webhookEvents, intent.intent_address)
                      THEN webhookEvents
                      ELSE MapSet(webhookEvents, intent.intent_address, << >>)
  /\ last' = [op |-> "getTransferStatus", before |-> webhookEvents,
              answered |-> TRUE, threw |-> "none",
              result |-> getTransferStatus(webhookEvents, intent)]
  /\ UNCHANGED <<services, monitor, webhookSecret, now, creating, captured, arrivals>>

\* getTransferStatus from the answer of `await getIntentStatus(intentId)` on:
\* the part before the await only sends the request
GetTransferStatusResume(intent) ==
  /\ last' = [op |-> "getTransferStatus", before |-> webhookEvents,
              answered |-> TRUE, threw |-> "none",
              result |-> getTransferStatus(webhookEvents, intent)]
  /\ UNCHANGED <<services, monitor, webhookSecret, now, webhookEvents, creating, captured, arrivals>>

\* getIntentStatus threw: the error propagates
GetTransferStatusFail ==
  /\ last' = [op |-> "getTransferStatus", before |-> webhookEvents,
              answered |-> FALSE, threw |-> "Error"]
  /\ UNCHANGED <<services, monitor, webhookSecret, now, webhookEvents, creating, captured, arrivals>>

Next ==
  \/ Tick
  \/ \E d \in Deliveries(captured, now) : HandleWebhook(d, FALSE)
  \/ CreateTransferCall
  \/ \E a \in Addresses : CreateTransferResume(a)
  \/ CreateTransferFail
  \/ \E intent \in IntentAnswers : GetTransferStatusResume(intent)
  \/ GetTransferStatusFail

Spec == Init /\ [][Next]_vars

\* webhook deliveries only, with an observer who keeps verified deliveries and
\* sends them again: no transfer is created or queried meanwhile
NextWebhooks ==
  \/ Tick
  \/ \E d \in Deliveries(captured, now), keep \in BOOLEAN : HandleWebhook(d, keep)

SpecWebhooks == Init /\ [][NextWebhooks]_vars


\* ------------------------------------------------ vocabulary of the properties
SecretConfigured == ~Falsy(webhookSecret)
WebhookHandled == last.op = "handleWebhook"
Accepted == last.threw = "none"
Rejected == last.threw = "UnauthorizedException"
MapUnchanged == webhookEvents = last.before

IsPrefix(s, t) == Len(s) <= Len(t) /\ SubSeq(t, 1, Len(s)) = s

\* the delivery carries a decimal timestamp header
HasTimestamp(d) == d.timestamp.kind = "digits"

\* the signature is the vendor's HMAC, under the configured secret, of the
\* timestamp header and of the serialisation of the delivered payload
ValidlySigned(d) ==
  /\ HasTimestamp(d)
  /\ d.signature.kind = "hmac"
  /\ d.signature.key = webhookSecret
  /\ d.signature.message.timestamp = Num(d.timestamp.val)
  /\ d.signature.message.body.form = "compact"
  /\ d.signature.message.body.value = d.body.value

WithinWindow(d, t) == HasTimestamp(d) /\ Abs(t - d.timestamp.val) <= 300

\* the log of the delivery's address is the log before with the event at the end
AppendedLast(d, t) ==
  LET a == d.body.value.data.intent_address
      ev == [id |-> d.body.value.id, type |-> d.body.value.type,
             created_at |-> d.body.value.created_at, data |-> d.body.value.data,
             receivedAt |-> t]
  IN /\ a \in DOMAIN webhookEvents
     /\ webhookEvents[a] =
          (IF a \in DOMAIN last.before THEN last.before[a] ELSE << >>) \o << ev >>

HasAddress(d) == "intent_address" \in DOMAIN d.body.value.data

\* ------------------------------------------------ C1
\* C1: with a secret configured, a delivery whose signature is valid for its
\* timestamp and payload and whose timestamp is within the replay window is
\* accepted, and its event is then the last entry of the log of its
\* intent_address, after all the events recorded there before.
C1_ValidFreshIsAppended ==
  (/\ WebhookHandled
   /\ SecretConfigured
   /\ ValidlySigned(last.delivery)
   /\ WithinWindow(last.delivery, last.at))
  => /\ Accepted
     /\ last.response.received
     /\ HasAddress(last.delivery) => AppendedLast(last.delivery, last.at)

C1_Witness ==
  /\ WebhookHandled
  /\ SecretConfigured
  /\ ValidlySigned(last.delivery)
  /\ WithinWindow(last.delivery, last.at)
  /\ Accepted
  /\ HasAddress(last.delivery)
  /\ Len(webhookEvents[last.delivery.body.value.data.intent_address]) = 2
  /\ webhookEvents[last.delivery.body.value.data.intent_address][1].id
       # last.delivery.body.value.id

\* ------------------------------------------------ C2
\* C2: with a secret configured, a delivery whose payload differs from the
\* payload that was signed is rejected with Unauthorized and no entry is
\* appended to any event log.
PayloadTampered(d) ==
  /\ d.signature.kind = "hmac"
  /\ d.signature.message.body.value # d.body.value

C2_TamperedIsRejected ==
  (WebhookHandled /\ SecretConfigured /\ PayloadTampered(last.delivery))
  => (Rejected /\ MapUnchanged /\ last.response.status = 401)

C2_Witness ==
  /\ WebhookHandled
  /\ SecretConfigured
  /\ PayloadTampered(last.delivery)
  /\ last.delivery.signature.key = webhookSecret
  /\ last.delivery.signature.message.timestamp = Num(last.at)
  /\ last.delivery.timestamp = HdrDigits(last.at)
  /\ Rejected
  /\ last.before # EmptyMap

\* ------------------------------------------------ C3
\* C3: with a secret configured, a delivery with |now - timestamp| > 300 is
\* rejected whatever its signature, and a validly signed delivery with
\* |now - timestamp| <= 300 (300 and 299 included) is accepted.
C3_WindowIs300BothWays ==
  (WebhookHandled /\ SecretConfigured /\ HasTimestamp(last.delivery))
  => /\ Abs(last.at - last.delivery.timestamp.val) > 300 => Rejected
     /\ (Abs(last.at - last.delivery.timestamp.val) <= 300
           /\ ValidlySigned(last.delivery)) => Accepted

C3_Witness ==
  /\ WebhookHandled
  /\ SecretConfigured
  /\ HasTimestamp(last.delivery)
  /\ last.at - last.delivery.timestamp.val = 300
  /\ ValidlySigned(last.delivery)
  /\ Accepted

\* ------------------------------------------------ C4
\* C4: when no webhook secret is configured (absent or empty), every delivery
\* is accepted whatever its signature and timestamp, a warning is logged on
\* each such delivery, and the event is recorded in the log of its
\* intent_address when it has one.
C4_NoSecretAcceptsAll ==
  (WebhookHandled /\ ~SecretConfigured)
  => /\ Accepted
     /\ last.warned
     /\ HasAddress(last.delivery) => AppendedLast(last.delivery, last.at)

C4_Witness ==
  /\ WebhookHandled
  /\ webhookSecret = ""
  /\ last.delivery.signature = SigText
  /\ HasTimestamp(last.delivery)
  /\ last.at - last.delivery.timestamp.val > 300
  /\ Accepted
  /\ last.warned
  /\ AppendedLast(last.delivery, last.at)

\* ------------------------------------------------ C5
\* C5: when only webhook deliveries are handled, in whatever order the
\* handlers run, the log of each address holds the events of all the accepted
\* deliveries for that address: none is lost.
C5_NoLostUpdate ==
  \A a \in Addresses :
    LET log == MapGetOrEmpty(webhookEvents, a) IN
    /\ Len(log) = Len(arrivals[a])
    /\ \A i \in 1..Len(arrivals[a]) :
         \E j \in 1..Len(log) :
           log[j].id = arrivals[a][i].id /\ log[j].receivedAt = arrivals[a][i].at

C5_Witness ==
  /\ Len(arrivals[AddrA]) >= 2
  /\ arrivals[AddrA][1].id # arrivals[AddrA][2].id
  /\ AddrA \in DOMAIN webhookEvents
  /\ Len(webhookEvents[AddrA]) = Len(arrivals[AddrA])

\* ------------------------------------------------ C6
\* C6: when createTransfer initialises an intent_address that already has a
\* log, the events already recorded for that address are kept.
C6_InitKeepsEvents ==
  (/\ last.op = "createTransfer"
   /\ last.threw = "none"
   /\ last.intentAddress \in DOMAIN last.before)
  => webhookEvents[last.intentAddress] = last.before[last.intentAddress]

\* ------------------------------------------------ C7
\* C7: the event log is append-only: for every address that has a log, the
\* log before a step is a prefix of the log after it.
C7_AppendOnly ==
  [][\A a \in DOMAIN webhookEvents :
       /\ a \in DOMAIN webhookEvents'
       /\ IsPrefix(webhookEvents[a], webhookEvents'[a])]_vars

\* ------------------------------------------------ C8
\* C8: whenever handleWebhookEvent rejects a delivery (stale or future
\* timestamp, signature mismatch, missing signature header while a secret is
\* configured) it raises Unauthorized and leaves the event-log mapping
\* unchanged.
RejectionCase(d, t) ==
  \/ HasTimestamp(d) /\ Abs(t - d.timestamp.val) > 300
  \/ d.signature.kind # "hmac"
  \/ d.signature.kind = "hmac" /\ d.signature.key # webhookSecret
  \/ PayloadTampered(d)

C8_RejectionChangesNothing ==
  WebhookHandled
  => /\ (SecretConfigured /\ RejectionCase(last.delivery, last.at)) => ~Accepted
     /\ ~Accepted => (Rejected /\ MapUnchanged /\ ~last.response.received)

C8_Witness ==
  /\ WebhookHandled
  /\ SecretConfigured
  /\ last.delivery.signature = SigMissing
  /\ HasAddress(last.delivery)
  /\ Rejected
  /\ last.before # EmptyMap
  /\ MapUnchanged

\* ------------------------------------------------ C9
\* C9: with a secret configured, a delivery whose timestamp header is missing
\* or does not parse to an integer is rejected and no event is recorded, for
\* every signature value.
C9_UnparseableTimestampRejected ==
  (WebhookHandled /\ SecretConfigured /\ ~HasTimestamp(last.delivery))
  => (Rejected /\ MapUnchanged)

\* ------------------------------------------------ C10
\* C10: with a secret configured, a delivery accepted once with timestamp t is
\* rejected when sent again at a time now with now - t > 300, and when sent
\* again with the timestamp header changed to another value.
ReplayOf(d, v, t) ==
  /\ HasTimestamp(v)
  /\ d.body = v.body
  /\ d.signature = v.signature
  /\ \/ d.timestamp = v.timestamp /\ t - v.timestamp.val > 300
     \/ HasTimestamp(d) /\ d.timestamp.val # v.timestamp.val

C10_ReplayIsRejected ==
  (WebhookHandled /\ SecretConfigured)
  => \A v \in captured : ReplayOf(last.delivery, v, last.at) => Rejected /\ MapUnchanged

C10_Witness ==
  /\ WebhookHandled
  /\ SecretConfigured
  /\ \E v \in captured :
       /\ ReplayOf(last.delivery, v, last.at)
       /\ last.delivery.timestamp = HdrDigits(last.at)
       /\ last.at - v.timestamp.val > 300
  /\ Rejected

\* ------------------------------------------------ C11
\* C11: an authentic delivery whose payload.data has no intent_address is
\* accepted, the event-log mapping is left unchanged, and the returned result
\* says that the event was received and names no intent address.
Authentic(d) == ~SecretConfigured \/ (ValidlySigned(d) /\ WithinWindow(d, last.at))

C11_UncorrelatedIsNoOp ==
  (WebhookHandled /\ Authentic(last.delivery) /\ ~HasAddress(last.delivery))
  => /\ Accepted
     /\ MapUnchanged
     /\ last.result.received
     /\ last.result.eventId = last.delivery.body.value.id
     /\ last.result.intentAddress = undefined

C11_Witness ==
  /\ WebhookHandled
  /\ SecretConfigured
  /\ ValidlySigned(last.delivery)
  /\ ~HasAddress(last.delivery)
  /\ Accepted
  /\ last.before # EmptyMap
  /\ MapUnchanged
  /\ last.result.intentAddress = undefined

\* ------------------------------------------------ C12
\* C12: every accepted delivery that carries an intent_address lengthens the
\* log of that address by exactly one, also when an event with the same id is
\* already in the log, and leaves the logs of all other addresses unchanged.
LogBefore(a) == IF a \in DOMAIN last.before THEN last.before[a] ELSE << >>

C12_NoDeduplication ==
  (WebhookHandled /\ Accepted /\ HasAddress(last.delivery))
  => LET a == last.delivery.body.value.data.intent_address IN
     /\ a \in DOMAIN webhookEvents
     /\ Len(webhookEvents[a]) = Len(LogBefore(a)) + 1
     /\ DOMAIN webhookEvents = DOMAIN last.before \cup {a}
     /\ \A b \in DOMAIN last.before : b # a => webhookEvents[b] = last.before[b]

C12_Witness ==
  /\ WebhookHandled
  /\ Accepted
  /\ HasAddress(last.delivery)
  /\ LET a == last.delivery.body.value.data.intent_address IN
     /\ \E i \in 1..Len(LogBefore(a)) : LogBefore(a)[i].id = last.delivery.body.value.id
     /\ Len(webhookEvents[a]) = Len(LogBefore(a)) + 1

\* ------------------------------------------------ C13
\* C13: the entry appended for an accepted delivery carries the payload's id,
\* type, created_at and data unchanged and a receivedAt read from the local
\* clock, and it is the last entry of the log of payload.data.intent_address,
\* which consists of that single entry when the address had no log yet.
C13_StoredEntry ==
  (WebhookHandled /\ Accepted /\ HasAddress(last.delivery))
  => LET p == last.delivery.body.value
         a == p.data.intent_address
     IN
     /\ a \in DOMAIN webhookEvents
     /\ Len(webhookEvents[a]) >= 1
     /\ LET e == webhookEvents[a][Len(webhookEvents[a])] IN
        /\ DOMAIN e = {"id", "type", "created_at", "data", "receivedAt"}
        /\ e.id = p.id
        /\ e.type = p.type
        /\ e.created_at = p.created_at
        /\ e.data = p.data
        /\ e.receivedAt = last.at
     /\ a \notin DOMAIN last.before => Len(webhookEvents[a]) = 1

C13_Witness ==
  /\ WebhookHandled
  /\ SecretConfigured
  /\ Accepted
  /\ HasAddress(last.delivery)
  /\ HasTimestamp(last.delivery)
  /\ last.delivery.timestamp.val # last.at
  /\ LET a == last.delivery.body.value.data.intent_address IN
     /\ a \notin DOMAIN last.before
     /\ last.before # EmptyMap
     /\ Len(webhookEvents[a]) = 1
     /\ webhookEvents[a][1].receivedAt = last.at

\* ------------------------------------------------ C14
\* the signature is the vendor's HMAC, under the configured secret, of the
\* timestamp header and of the body exactly as it was sent
SignedOverRawBody(d) ==
  /\ HasTimestamp(d)
  /\ d.signature.kind = "hmac"
  /\ d.signature.key = webhookSecret
  /\ d.signature.message.timestamp = Num(d.timestamp.val)
  /\ d.signature.message.body = d.body

\* C14: with a secret configured, a delivery inside the freshness window that
\* the sender signed over its raw body is accepted, whatever the formatting
\* (key order, whitespace, number formatting) of that body.
C14_RawBodySignatureAccepted ==
  (WebhookHandled /\ SecretConfigured /\ SignedOverRawBody(last.delivery)
     /\ WithinWindow(last.delivery, last.at))
  => Accepted

\* ------------------------------------------------ C15
\* the last step was a getTransferStatus whose intent lookup was answered
StatusQueried == last.op = "getTransferStatus" /\ last.answered

\* C15: getTransferStatus for an intent whose intent_address was never
\* initialised by createTransfer and never received an event does not throw
\* and returns an empty sequence of events.
C15_UnknownAddressIsEmpty ==
  (StatusQueried /\ ~MapHas(last.before, last.result.intent.intent_address))
  => /\ last.threw = "none"
     /\ last.result.webhookEvents = << >>

C15_Witness ==
  /\ StatusQueried
  /\ last.result.intent.intent_address = AddrC
  /\ ~MapHas(last.before, AddrC)
  /\ last.before # EmptyMap
  /\ last.result.webhookEvents = << >>

\* ------------------------------------------------ C16
\* t is s without its first Len(s) - Len(t) elements, compared by event id
IsSuffixById(t, s) ==
  /\ Len(t) <= Len(s)
  /\ \A i \in 1..Len(t) : t[i].id = s[Len(s) - Len(t) + i].id

\* C16: getTransferStatus leaves the event-log mapping unchanged, creating no
\* entry for an address that has none, and the events it returns are the log
\* of the intent's address as it stands, which lists the accepted events in
\* the order of their arrival.
C16_ReadHasNoSideEffect ==
  /\ last.op = "getTransferStatus" => MapUnchanged
  /\ StatusQueried
     => LET a == last.result.intent.intent_address IN
        /\ last.result.webhookEvents = MapGetOrEmpty(last.before, a)
        /\ ~MapHas(last.before, a) => ~MapHas(webhookEvents, a)
        /\ a \in Addresses => IsSuffixById(last.result.webhookEvents, arrivals[a])

C16_Witness ==
  /\ StatusQueried
  /\ MapUnchanged
  /\ Len(last.result.webhookEvents) >= 2
  /\ last.result.webhookEvents[1].id # last.result.webhookEvents[2].id
  /\ \E b \in {AddrA, AddrB, AddrC} : ~MapHas(webhookEvents, b)

\* ------------------------------------------------ C17
\* C17: an address that is a key of the event-log mapping is still a key
\* after every step: no operation deletes an entry.
C17_KeysAreNeverRemoved ==
  [][DOMAIN webhookEvents \subseteq DOMAIN webhookEvents']_vars

C17_Witness ==
  /\ last.op \in {"createTransfer", "handleWebhook"}
  /\ last.threw = "none"
  /\ webhookEvents # last.before
  /\ \E a, b \in DOMAIN last.before :
       /\ a # b
       /\ last.before[a] = << >>
       /\ {a, b} \subseteq DOMAIN webhookEvents
       /\ webhookEvents[b] # last.before[b]

\* ------------------------------------------------ C18
\* C18: POST /app/webhook answers every delivery, also one whose signature or
\* timestamp check fails, with a success status and a body carrying
\* received: true.
C18_AlwaysAcknowledged ==
  WebhookHandled
  => /\ last.response.status \in 200..299
     /\ last.response.received

\* ------------------------------------------------ C20
\* C20: an event accepted for an address while a createTransfer call is
\* suspended on the vendor's answer is still in the log of that address when
\* that call completes with an intent for the same address.
C20_CreateTransferKeepsConcurrentEvent ==
  [][(/\ creating > 0
      /\ WebhookHandled
      /\ Accepted
      /\ HasAddress(last.delivery)
      /\ last'.op = "createTransfer"
      /\ last'.threw = "none"
      /\ last'.intentAddress = last.delivery.body.value.data.intent_address)
     => LET a == last.delivery.body.value.data.intent_address IN
        \E i \in 1..Len(webhookEvents'[a]) :
          webhookEvents'[a][i].id = last.delivery.body.value.id
    ]_vars

\* ------------------------------------------------ C21
\* C21: in every reachable state, every event stored in the log of an address
\* names that address in its own data.intent_address.
C21_EventsUnderTheirOwnAddress ==
  \A a \in DOMAIN webhookEvents :
    \A i \in 1..Len(webhookEvents[a]) :
      /\ "intent_address" \in DOMAIN webhookEvents[a][i].data
      /\ webhookEvents[a][i].data.intent_address = a

C21_Witness ==
  /\ WebhookHandled
  /\ Accepted
  /\ HasAddress(last.delivery)
  /\ {AddrA, AddrB} \subseteq DOMAIN webhookEvents
  /\ webhookEvents[AddrA] # << >>
  /\ webhookEvents[AddrB] # << >>
  /\ \A a \in {AddrA, AddrB} : webhookEvents[a][1].data.intent_address = a

\* ------------------------------------------------ sdk/demo.ts (Express)
\* timestampHeader ? parseInt(timestampHeader, 10) : Math.floor(Date.now() / 1000)
demoTimestamp(h, nowv) == IF h.kind = "undefined" THEN Num(nowv) ELSE parseInt(h)

\* app.post("/app/webhook", ...): status and body of the response, map after
expressWebhook(map, secret, nowv, d) ==
  LET payload == JSONparse(d.body)
      timestamp == demoTimestamp(d.timestamp, nowv)
      computed == createHmac(secret, Message(timestamp, JSONstringify(payload)))
      refused(status, error) ==
        [status |-> status, error |-> error, received |-> FALSE, events |-> map,
         warned |-> FALSE, timestamp |-> timestamp]
  IN
  IF ~Falsy(secret) /\ TooOld(nowv, timestamp)
  THEN refused(400, "Invalid timestamp")
  ELSE IF ~Falsy(secret) /\ computed # d.signature
  THEN refused(401, "Invalid signature")
  ELSE [status |-> 200, error |-> "none", received |-> TRUE,
        events |-> RecordEvent(map, payload, nowv),
        warned |-> Falsy(secret), timestamp |-> timestamp]

\* deliveries sent to the Express server: also one without a timestamp header,
\* signed for the time it is sent at
DemoDeliveries(nowv) ==
  FreshDeliveries(nowv)
  \cup {[Signed(VendorSecret, JSONstringify(BasePayload), nowv)
           EXCEPT !.timestamp = HdrMissing]}

\* POST /app/webhook of the Express server
ExpressWebhook(d) ==
  LET r == expressWebhook(webhookEvents, webhookSecret, now, d) IN
  /\ Recorded < MaxDeliveries
  /\ webhookEvents' = r.events
  /\ arrivals' = IF r.status = 200 /\ Arrival(d) # undefined
                  THEN [arrivals EXCEPT ![Arrival(d)] =
                          @ \o << [id |-> d.body.value.id, at |-> now] >>]
                  ELSE arrivals
  /\ last' = [op |-> "expressWebhook", before |-> webhookEvents, delivery |-> d,
              at |-> now, status |-> r.status, error |-> r.error,
              received |-> r.received, warned |-> r.warned]
  /\ UNCHANGED <<services, monitor, webhookSecret, now, creating, captured>>

NextDemo ==
  \/ Tick
  \/ \E d \in DemoDeliveries(now) : ExpressWebhook(d)

\* the Express server alone
SpecDemo == Init /\ [][NextDemo]_vars

\* ------------------------------------------------ C22
\* C22: for every delivery, the Express handler and the NestJS path
\* (AppController.handleWebhook with AppService.handleWebhookEvent), given the
\* same secret, clock and event-log mapping, make the same accept/reject
\* decision and leave the same mapping.
C22_ExpressAgreesWithNest ==
  last.op = "expressWebhook"
  => LET n == handleWebhook(last.before, webhookSecret, last.at, last.delivery) IN
     /\ (last.status = 200) <=> (n.threw = "none")
     /\ webhookEvents = n.events

\* ------------------------------------------------ AppService (server/nestjs-example)
\* number of characters of hmac.digest('hex') for sha256
SHA256_HEX_LENGTH == 64

\* characters of a string: [ch |-> what, width |-> bytes of its UTF-8 encoding]
Lit(c) == [ch |-> [lit |-> c], width |-> 1]
NonAscii == [ch |-> [lit |-> "e-acute"], width |-> 2]
Sha256Prefix == <<Lit("s"), Lit("h"), Lit("a"), Lit("2"), Lit("5"), Lit("6"), Lit("=")>>

\* the characters of a signature header value; the i-th hex digit of a digest
\* is a character of its own
SigChars(signature) ==
  CASE signature.kind = "hmac" ->
         Sha256Prefix \o [i \in 1..SHA256_HEX_LENGTH |->
                            [ch |-> [key |-> signature.key, message |-> signature.message,
                                     pos |-> i],
                             width |-> 1]]
    [] signature.kind = "text" ->
         Sha256Prefix \o <<Lit("d"), Lit("e"), Lit("a"), Lit("d")>>
    [] signature.kind = "chars" -> signature.chars

RECURSIVE Utf8(_)
\* Buffer.from(string): the bytes of the UTF-8 encoding
Utf8(chars) ==
  IF chars = << >> THEN << >>
  ELSE [k \in 1..Head(chars).width |-> [of |-> Head(chars).ch, byte |-> k]]
       \o Utf8(Tail(chars))

\* Buffer.from(receivedSignature): throws a TypeError for undefined
BufferFrom(signature) ==
  IF signature.kind = "undefined"
  THEN [threw |-> "TypeError", bytes |-> << >>]
  ELSE [threw |-> "none", bytes |-> Utf8(SigChars(signature))]

\* crypto.timingSafeEqual: throws a RangeError for buffers of different length
timingSafeEqual(a, b) ==
  IF Len(a) # Len(b)
  THEN [threw |-> "RangeError", equal |-> FALSE]
  ELSE [threw |-> "none", equal |-> a = b]

\* variant: `return receivedBuffer.length === computedBuffer.length`
serverVerifyWebhookSignatureLengthOnly(secret, nowv, payload, receivedSignature, timestamp) ==
  IF Falsy(secret) THEN TRUE
  ELSE IF TooOld(nowv, timestamp) THEN FALSE
  ELSE LET computedSignature ==
             createHmac(secret, Message(timestamp, JSONstringify(payload)))
           receivedBuffer == BufferFrom(receivedSignature)
           computedBuffer == BufferFrom(computedSignature)
       IN IF receivedBuffer.threw # "none" THEN FALSE
          ELSE Len(receivedBuffer.bytes) = Len(computedBuffer.bytes)

\* verifyWebhookSignature of the server example
serverVerifyWebhookSignature(secret, nowv, payload, receivedSignature, timestamp) ==
  IF Falsy(secret) THEN TRUE
  ELSE IF TooOld(nowv, timestamp) THEN FALSE
  ELSE LET computedSignature ==
             createHmac(secret, Message(timestamp, JSONstringify(payload)))
           receivedBuffer == BufferFrom(receivedSignature)
           computedBuffer == BufferFrom(computedSignature)
       IN IF receivedBuffer.threw # "none" THEN FALSE
          ELSE IF Len(receivedBuffer.bytes) # Len(computedBuffer.bytes) THEN FALSE
          ELSE LET r == timingSafeEqual(receivedBuffer.bytes, computedBuffer.bytes)
               IN IF r.threw # "none" THEN FALSE ELSE r.equal

\* header values that are a signature text changed in one place
Altered(signature) ==
  LET c == SigChars(signature)
      n == Len(c)
  IN {[kind |-> "chars", chars |-> x] :
        x \in {SubSeq(c, 1, n - 1),
               c \o <<Lit("0")>>,
               [c EXCEPT ![n] = Lit("x")],
               [c EXCEPT ![n] = NonAscii],
               SubSeq(c, 1, n - 2) \o <<NonAscii>>}}

\* timestamps and signature headers the verifier can be called with
TimestampInputs(nowv) == {Num(nowv + o) : o \in Offsets} \cup {NaN}

SignatureInputs(nowv, payload, timestamp) ==
  LET sent == createHmac(VendorSecret, Message(timestamp, JSONstringify(payload))) IN
     {SigMissing, SigText, sent}
  \cup {createHmac(k, Message(t, JSONstringify(p))) :
          k \in {VendorSecret, OtherSecret}, t \in {timestamp, Num(nowv)},
          p \in {payload, BasePayload}}
  \cup Altered(sent)

\* both verifiers called with the same configuration, clock and arguments
VerifyBoth(payload, signature, timestamp) ==
  /\ last' = [op |-> "verifyWebhookSignature", before |-> webhookEvents,
              payload |-> payload, signature |-> signature,
              timestamp |-> timestamp, at |-> now,
              api |-> verifyWebhookSignature(webhookSecret, now, payload,
                                             signature, timestamp),
              server |-> serverVerifyWebhookSignature(webhookSecret, now, payload,
                                                      signature, timestamp)]
  /\ UNCHANGED <<services, monitor, webhookSecret, now, webhookEvents, creating, captured, arrivals>>

NextVerify ==
  \/ Tick
  \/ \E p \in Payloads, t \in TimestampInputs(now) :
       \E sig \in SignatureInputs(now, p, t) : VerifyBoth(p, sig, t)

\* the two verifiers side by side
SpecVerify == Init /\ [][NextVerify]_vars

\* ------------------------------------------------ C23
\* C23: for every secret setting, clock, timestamp, payload and received
\* signature (an absent one included), verifyWebhookSignature of the api
\* service and verifyWebhookSignature of the server example return the same
\* boolean.
C23_VerifiersAgree ==
  last.op = "verifyWebhookSignature" => last.api = last.server

C23_Witness ==
  /\ last.op = "verifyWebhookSignature"
  /\ SecretConfigured
  /\ last.signature.kind = "chars"
  /\ Len(Utf8(last.signature.chars))
       = Len(Utf8(SigChars(createHmac(webhookSecret,
                                      Message(last.timestamp, JSONstringify(last.payload))))))
  /\ ~TooOld(last.at, last.timestamp)
  /\ ~last.api
  /\ ~last.server

\* ------------------------------------------------ C24
\* C24: when the vendor's intent creation fails (non-OK response or network
\* error), createTransfer propagates the error and leaves the event-log
\* mapping unchanged: no entry is initialised.
C24_FailedCreationChangesNothing ==
  (last.op = "createTransfer" /\ ~last.answered)
  => /\ last.threw = "Error"
     /\ MapUnchanged

C24_Witness ==
  /\ last.op = "createTransfer"
  /\ ~last.answered
  /\ last.threw = "Error"
  /\ MapUnchanged
  /\ \E a \in DOMAIN webhookEvents : webhookEvents[a] # << >>
  /\ \E a \in Addresses : a \notin DOMAIN webhookEvents

\* ------------------------------------------------ C25
\* C25: getTransferStatus derives statusMessage, isComplete and isFailed from
\* the intent_status the vendor returned, which it hands back unchanged:
\* isComplete holds exactly for COMPLETED, isFailed exactly for EXPIRED and
\* REFUNDED, never both, a known status gets its message and a status outside
\* the six known ones is passed through as the message.
C25_StatusIsDerivedFromIntent ==
  (StatusQueried /\ last.threw = "none")
  => LET r == last.result
         st == r.intent.intent_status
     IN
     /\ r.isComplete <=> st = "COMPLETED"
     /\ r.isFailed <=> st \in {"EXPIRED", "REFUNDED"}
     /\ ~(r.isComplete /\ r.isFailed)
     /\ st \in KnownStatuses => r.statusMessage = stages[st]
     /\ st \notin KnownStatuses => r.statusMessage = st

\* ------------------------------------------------ AppService.getTransferOptions
Chains == {"ARBITRUM_TESTNET", "BASE_TESTNET"}
TokenOut == "0x75fa"

\* bestQuote of a quote: absent, or fee (a decimal string, by its value),
\* formatted fee, route and amount
NoBestQuote == [kind |-> "undefined"]
MkBestQuote(totalFee, bridgeToUse) ==
  [kind |-> "quote", totalFee |-> totalFee, totalFeeFormatted |-> totalFee,
   route |-> [bridgeToUse |-> bridgeToUse, tokenIn |-> "0x036c"], amount |-> 10000000]
BestQuotes == {NoBestQuote, MkBestQuote(500, undefined), MkBestQuote(2500, "CCTP")}

Quotes == [sourceChain : Chains, bestQuote : BestQuotes]

RECURSIVE SeqsUpTo(_, _)
\* the sequences over S of length at most n
SeqsUpTo(S, n) ==
  IF n = 0 THEN {<< >>}
  ELSE LET shorter == SeqsUpTo(S, n - 1) IN
       shorter \cup {Append(q, x) : q \in shorter, x \in S}

\* `quotes` of the answers of GET /quotes/multi-source
QuoteLists == SeqsUpTo(Quotes, MaxQuotes)

\* one element of multiSourceQuotes.quotes.map((quote, index) => ...); index from 0
optionOf(quote, index, params) ==
  LET isSameChain == quote.sourceChain = params.destinationChain
      isCheapest == index = 0
      has == quote.bestQuote.kind = "quote"
  IN [index |-> index + 1,
      sourceChain |-> quote.sourceChain,
      type |-> IF isSameChain THEN "same-chain" ELSE "cross-chain",
      fee |-> IF has THEN quote.bestQuote.totalFee ELSE 0,
      feeFormatted |-> IF has THEN quote.bestQuote.totalFeeFormatted ELSE 0,
      bridge |-> IF isSameChain THEN "None (same chain)"
                 ELSE IF has /\ ~Falsy(quote.bestQuote.route.bridgeToUse)
                 THEN quote.bestQuote.route.bridgeToUse ELSE "Auto-selected",
      recommended |-> isCheapest,
      tokenIn |-> IF has THEN quote.bestQuote.route.tokenIn ELSE params.tokenOut,
      amountInSmallestUnit |-> IF has THEN quote.bestQuote.amount ELSE 0]

\* variant: the flag is put on index 1, the second quote
getTransferOptionsFlaggingSecond(quotes, params) ==
  LET options == [i \in 1..Len(quotes) |->
                    [optionOf(quotes[i], i - 1, params) EXCEPT !.recommended = (i - 1 = 1)]]
  IN [destinationChain |-> params.destinationChain,
      amount |-> params.amount,
      options |-> options,
      cheapestOption |-> IF options = << >> THEN [kind |-> "undefined"] ELSE options[1],
      totalOptions |-> Len(options)]

\* getTransferOptions after `await this.quotesService.getMultiSourceQuotes(...)`
getTransferOptions(quotes, params) ==
  LET options == [i \in 1..Len(quotes) |-> optionOf(quotes[i], i - 1, params)]
  IN [destinationChain |-> params.destinationChain,
      amount |-> params.amount,
      options |-> options,
      cheapestOption |-> IF options = << >> THEN [kind |-> "undefined"] ELSE options[1],
      totalOptions |-> Len(options)]

\* getTransferOptions from the answer of `await getMultiSourceQuotes(...)` on
GetTransferOptionsResume(quotes, destinationChain) ==
  LET params == [destinationChain |-> destinationChain, amount |-> "10",
                 tokenOut |-> TokenOut]
  IN
  /\ last' = [op |-> "getTransferOptions", before |-> webhookEvents,
              answered |-> TRUE, threw |-> "none", quotes |-> quotes,
              params |-> params, result |-> getTransferOptions(quotes, params)]
  /\ UNCHANGED <<services, monitor, webhookSecret, now, webhookEvents, creating, captured, arrivals>>

\* getMultiSourceQuotes threw (non-OK response or network error): the error propagates
GetTransferOptionsFail ==
  /\ last' = [op |-> "getTransferOptions", before |-> webhookEvents,
              answered |-> FALSE, threw |-> "Error"]
  /\ UNCHANGED <<services, monitor, webhookSecret, now, webhookEvents, creating, captured, arrivals>>

NextOptions ==
  \/ \E quotes \in QuoteLists, c \in Chains : GetTransferOptionsResume(quotes, c)
  \/ GetTransferOptionsFail

\* the transfer options alone
SpecOptions == Init /\ [][NextOptions]_vars

\* ------------------------------------------------ C26
OptionsReturned ==
  /\ last.op = "getTransferOptions"
  /\ last.answered
  /\ last.quotes # << >>

\* the options come in ascending order of fee
SortedByFee(options) ==
  \A i, j \in 1..Len(options) : i <= j => options[i].fee <= options[j].fee

OneRecommendedAndReturned(r) ==
  /\ Cardinality({i \in 1..Len(r.options) : r.options[i].recommended}) = 1
  /\ \E i \in 1..Len(r.options) :
       r.options[i].recommended /\ r.cheapestOption = r.options[i]

maxAttempts == 15

\* monitorTransferStatus(intentId) is called: isComplete = false, attempts = 0
MonitorStart ==
  /\ monitor.pc = "idle"
  /\ monitor' = [monitor EXCEPT !.pc = "loop"]
  /\ UNCHANGED <<services, webhookSecret, now, webhookEvents, creating, captured, arrivals, last>>

\* while (!isComplete && attempts < maxAttempts) { attempts++; ... up to the
\* await of getTransferStatus
MonitorCheck ==
  /\ monitor.pc = "loop"
  /\ ~monitor.isComplete /\ monitor.attempts < maxAttempts
  /\ monitor' = [monitor EXCEPT !.pc = "awaitStatus", !.attempts = @ + 1,
                                !.checks = @ + 1]
  /\ UNCHANGED <<services, webhookSecret, now, webhookEvents, creating, captured, arrivals, last>>

\* variant: a failed transfer does not end the monitoring
MonitorStatusIgnoringFailed(intent) ==
  LET status == getTransferStatus(webhookEvents, intent)
      final == status.isComplete \/ status.isFailed
  IN
  /\ monitor.pc = "awaitStatus"
  /\ monitor' = [monitor EXCEPT
                   !.pc = IF status.isComplete THEN "loop" ELSE "sleep",
                   !.isComplete = status.isComplete,
                   !.finalAt = IF final /\ @ = 0 THEN monitor.attempts ELSE @]
  /\ UNCHANGED <<services, webhookSecret, now, webhookEvents, creating, captured, arrivals, last>>

\* getTransferStatus answered: complete or failed ends the loop, otherwise the
\* 15 s timer is started
MonitorStatus(intent) ==
  LET status == getTransferStatus(webhookEvents, intent)
      final == status.isComplete \/ status.isFailed
  IN
  /\ monitor.pc = "awaitStatus"
  /\ monitor' = [monitor EXCEPT
                   !.pc = IF final THEN "loop" ELSE "sleep",
                   !.isComplete = final,
                   !.finalAt = IF final /\ @ = 0 THEN monitor.attempts ELSE @]
  /\ UNCHANGED <<services, webhookSecret, now, webhookEvents, creating, captured, arrivals, last>>

\* getTransferStatus threw: the catch block starts the 15 s timer
MonitorStatusError ==
  /\ monitor.pc = "awaitStatus"
  /\ monitor' = [monitor EXCEPT !.pc = "sleep", !.errors = @ + 1]
  /\ UNCHANGED <<services, webhookSecret, now, webhookEvents, creating, captured, arrivals, last>>

\* the timer fires: back to the loop condition
MonitorWake ==
  /\ monitor.pc = "sleep"
  /\ monitor' = [monitor EXCEPT !.pc = "loop"]
  /\ UNCHANGED <<services, webhookSecret, now, webhookEvents, creating, captured, arrivals, last>>

\* the loop condition fails: `if (!isComplete)` reports the timeout
MonitorExit ==
  /\ monitor.pc = "loop"
  /\ ~(~monitor.isComplete /\ monitor.attempts < maxAttempts)
  /\ monitor' = [monitor EXCEPT !.pc = "done", !.timedOut = ~monitor.isComplete]
  /\ UNCHANGED <<services, webhookSecret, now, webhookEvents, creating, captured, arrivals, last>>

\* the steps of a started monitorTransferStatus
MonitorStep ==
  \/ MonitorCheck
  \/ \E intent \in IntentAnswers : MonitorStatus(intent)
  \/ MonitorStatusError
  \/ MonitorWake
  \/ MonitorExit

NextMonitor ==
  \/ MonitorStart
  \/ MonitorStep

\* the CLI's monitor alone; every await settles (the status request is
\* answered or fails, the timer fires), so a started monitor keeps stepping
SpecMonitor == Init /\ [][NextMonitor]_vars /\ WF_vars(MonitorStep)

\* ------------------------------------------------ C27
\* at most 15 checks, each attempt is one check (one that threw included), no
\* check after the first that reported complete or failed, and at the end a
\* timeout is reported exactly when 15 checks passed without such a report
MonitorWithinLimits ==
  /\ monitor.checks <= maxAttempts
  /\ monitor.checks = monitor.attempts
  /\ monitor.errors <= monitor.checks
  /\ monitor.finalAt # 0 => monitor.checks = monitor.finalAt
  /\ monitor.finalAt # 0 => monitor.errors < monitor.checks
  /\ monitor.pc = "done"
     => (monitor.timedOut <=> (monitor.finalAt = 0 /\ monitor.checks = maxAttempts))

\* C27: monitorTransferStatus always terminates: it makes at most 15 status
\* checks, a check that raises an error counts towards the 15, it stops at the
\* first check that reports the transfer complete or failed, and it reports a
\* timeout exactly when 15 checks passed without a complete or failed status.
C27_MonitorTerminates ==
  /\ []MonitorWithinLimits
  /\ (monitor.pc # "idle") ~> (monitor.pc = "done")

C27_Witness ==
  /\ monitor.pc = "done"
  /\ monitor.timedOut
  /\ monitor.checks = maxAttempts
  /\ monitor.errors >= 1
  /\ monitor.errors < maxAttempts

\* ------------------------------------------------ ChainsService, QuotesAndRoutesService, IntentsService
ApiKeys == {undefined, "", "cr_live_key"}

\* the services and their methods that call fetch
ServiceMethods ==
  [ChainsService |-> {"getAllChains", "getChainsByEnvironment", "getSupportedTokens"},
   QuotesAndRoutesService |-> {"getBestQuote", "getMultiSourceQuotes"},
   IntentsService |-> {"createIntent", "getIntentStatus"}]

ServiceNames == DOMAIN ServiceMethods

\* ConfigModule.forRoot: the environment is read, CHAINRAILS_API_KEY is key
LoadConfig(key) ==
  /\ ~services.env.loaded
  /\ services' = [services EXCEPT !.env = [loaded |-> TRUE, key |-> key]]
  /\ UNCHANGED <<webhookSecret, now, webhookEvents, creating, captured, arrivals,
                 last, monitor>>

\* variant: only an absent key is refused (`=== undefined`), an empty one is not
ConstructRefusingOnlyAbsent(service) ==
  /\ services.env.loaded
  /\ service \notin DOMAIN services.apiKey \cup services.threw
  /\ services' =
       IF services.env.key = undefined
       THEN [services EXCEPT !.threw = @ \cup {service}]
       ELSE [services EXCEPT !.apiKey =
               [n \in DOMAIN @ \cup {service} |->
                  IF n = service THEN services.env.key ELSE @[n]]]
  /\ UNCHANGED <<webhookSecret, now, webhookEvents, creating, captured, arrivals,
                 last, monitor>>

\* constructor(configService): this.apiKey = get('CHAINRAILS_API_KEY');
\* if (!this.apiKey) throw
Construct(service) ==
  /\ services.env.loaded
  /\ service \notin DOMAIN services.apiKey \cup services.threw
  /\ services' =
       IF Falsy(services.env.key)
       THEN [services EXCEPT !.threw = @ \cup {service}]
       ELSE [services EXCEPT !.apiKey =
               [n \in DOMAIN @ \cup {service} |->
                  IF n = service THEN services.env.key ELSE @[n]]]
  /\ UNCHANGED <<webhookSecret, now, webhookEvents, creating, captured, arrivals,
                 last, monitor>>

\* a method of a constructed service calls fetch with
\* Authorization: `Bearer ${this.apiKey}`
Request(service, method) ==
  /\ service \in DOMAIN services.apiKey
  /\ Cardinality(services.requests) < MaxRequests
  /\ services' = [services EXCEPT !.requests = @ \cup
                    {[service |-> service, method |-> method,
                      authorization |-> [scheme |-> "Bearer",
                                         key |-> services.apiKey[service]]]}]
  /\ UNCHANGED <<webhookSecret, now, webhookEvents, creating, captured, arrivals,
                 last, monitor>>

NextServices ==
  \/ \E key \in ApiKeys : LoadConfig(key)
  \/ \E service \in ServiceNames : Construct(service)
  \/ \E service \in ServiceNames : \E method \in ServiceMethods[service] :
       Request(service, method)

\* the API services alone
SpecServices == Init /\ [][NextServices]_vars

\* ------------------------------------------------ C28
\* C28: none of ChainsService, QuotesAndRoutesService and IntentsService is
\* constructed when CHAINRAILS_API_KEY is absent or empty (the constructor
\* throws), so every request these services send carries a non-empty bearer
\* key.
C28_NoServiceWithoutApiKey ==
  /\ Falsy(services.env.key) => DOMAIN services.apiKey = {}
  /\ ~Falsy(services.env.key) => services.threw = {}
  /\ \A service \in DOMAIN services.apiKey : ~Falsy(services.apiKey[service])
  /\ \A r \in services.requests :
       /\ r.service \in DOMAIN services.apiKey
       /\ r.authorization.scheme = "Bearer"
       /\ ~Falsy(r.authorization.key)

C28_Witness ==
  /\ services.env.loaded
  /\ services.env.key = ""
  /\ services.threw = ServiceNames
  /\ DOMAIN services.apiKey = {}
  /\ services.requests = {}

====
